---------------------------- MODULE Spec2Model ----------------------------
(***************************************************************************)
(* Model of GitHubDailyReporter (src/github_daily.py): one run of the      *)
(* batch job  fetch -> filter -> format -> compose -> notify, with the     *)
(* three blocking network calls answered by the environment.               *)
(*                                                                         *)
(* Python str values are modelled as sequences of one-character strings    *)
(* (or of longer literal fragments where the code never looks inside       *)
(* them), so that parsing, comparison and replacement are computed.        *)
(***************************************************************************)
EXTENDS Integers, Sequences, FiniteSets, TLC

(***************************************************************************)
(* Bounds of the model.                                                    *)
(***************************************************************************)
MaxEvents == 2

(***************************************************************************)
(* Program constants.                                                      *)
(***************************************************************************)
OK == 200
NO_CONTENT == 204
LookbackHours == 24

(***************************************************************************)
(* Characters and strings.                                                 *)
(***************************************************************************)
Digits == <<"0", "1", "2", "3", "4", "5", "6", "7", "8", "9">>

IsDigit(c) == \E i \in 1..10 : Digits[i] = c

DigitVal(c) == (CHOOSE i \in 1..10 : Digits[i] = c) - 1

\* Code point of the characters a parseable timestamp can contain.
Ord(c) ==
    IF IsDigit(c) THEN 48 + DigitVal(c)
    ELSE CASE c = " " -> 32
           [] c = "-" -> 45
           [] c = "/" -> 47
           [] c = ":" -> 58
           [] c = "T" -> 84
           [] c = "Z" -> 90
           [] c = "t" -> 116
           [] c = "z" -> 122

\* Python's str < str : lexicographic by code point, a proper prefix is smaller.
RECURSIVE StrLess(_, _)
StrLess(a, b) ==
    IF b = <<>> THEN FALSE
    ELSE IF a = <<>> THEN TRUE
    ELSE IF Head(a) = Head(b) THEN StrLess(Tail(a), Tail(b))
    ELSE Ord(Head(a)) < Ord(Head(b))

\* str(n) for a non-negative int: its decimal digits.
RECURSIVE Str(_)
Str(n) ==
    IF n < 10 THEN <<Digits[n + 1]>>
    ELSE Str(n \div 10) \o <<Digits[(n % 10) + 1]>>

\* int(s) for a string of decimal digits.
RECURSIVE IntOf(_)
IntOf(s) ==
    IF s = <<>> THEN 0
    ELSE IntOf(SubSeq(s, 1, Len(s) - 1)) * 10 + DigitVal(s[Len(s)])

AllDigits(s) == s # <<>> /\ \A i \in 1..Len(s) : IsDigit(s[i])

StartsWith(s, p) == Len(s) >= Len(p) /\ SubSeq(s, 1, Len(p)) = p

\* str.replace(old, new): every non-overlapping occurrence, left to right.
RECURSIVE Replace(_, _, _)
Replace(s, old, new) ==
    IF Len(s) < Len(old) THEN s
    ELSE IF StartsWith(s, old)
         THEN new \o Replace(SubSeq(s, Len(old) + 1, Len(s)), old, new)
         ELSE <<Head(s)>> \o Replace(Tail(s), old, new)

(***************************************************************************)
(* datetime: a naive datetime is [day, sec, us] (proleptic ordinal day,    *)
(* second of the day, microsecond), ordered lexicographically.             *)
(***************************************************************************)
IsLeap(y) == y % 4 = 0 /\ (y % 100 # 0 \/ y % 400 = 0)

DaysInMonth(y, m) ==
    IF m = 2 THEN (IF IsLeap(y) THEN 29 ELSE 28)
    ELSE IF m \in {4, 6, 9, 11} THEN 30 ELSE 31

RECURSIVE DaysBeforeMonth(_, _)
DaysBeforeMonth(y, m) ==
    IF m = 1 THEN 0 ELSE DaysBeforeMonth(y, m - 1) + DaysInMonth(y, m - 1)

Ordinal(y, m, d) ==
    (y - 1) * 365 + ((y - 1) \div 4) - ((y - 1) \div 100) + ((y - 1) \div 400)
        + DaysBeforeMonth(y, m) + d

MkDatetime(y, m, d, hh, mm, ss, us) ==
    [day |-> Ordinal(y, m, d), sec |-> hh * 3600 + mm * 60 + ss, us |-> us]

\* a >= b on datetimes
DtGeq(a, b) ==
    \/ a.day > b.day
    \/ a.day = b.day /\ a.sec > b.sec
    \/ a.day = b.day /\ a.sec = b.sec /\ a.us >= b.us

\* dt - timedelta(hours=h)
MinusHours(dt, h) ==
    LET total == dt.sec - h * 3600
        back  == (86400 - 1 - total) \div 86400   \* days borrowed, total < 86400
    IN  [day |-> dt.day - back, sec |-> total + back * 86400, us |-> dt.us]

(***************************************************************************)
(* datetime.strptime(s, "%Y-%m-%dT%H:%M:%SZ").  The format is compiled to  *)
(* a case-insensitive regular expression: %Y is exactly four digits, the   *)
(* other directives accept one or two digits (and %d a space followed by   *)
(* a digit); the whole string must match, and the date must exist.         *)
(***************************************************************************)
Upper(c) == IF c = "t" THEN "T" ELSE IF c = "z" THEN "Z" ELSE c

\* index of the first occurrence of literal lit in s at or after from, or 0
RECURSIVE Find(_, _, _)
Find(s, lit, from) ==
    IF from > Len(s) THEN 0
    ELSE IF Upper(s[from]) = lit THEN from
    ELSE Find(s, lit, from + 1)

\* the fields between the literals of the format, or <<>> when a literal is
\* missing or text remains after the last one
RECURSIVE SplitFields(_, _, _)
SplitFields(s, lits, from) ==
    IF lits = <<>> THEN (IF from = Len(s) + 1 THEN <<<<>>>> ELSE <<>>)
    ELSE LET at == Find(s, Head(lits), from)
         IN  IF at = 0 THEN <<>>
             ELSE LET rest == SplitFields(s, Tail(lits), at + 1)
                  IN  IF rest = <<>> THEN <<>>
                      ELSE <<SubSeq(s, from, at - 1)>> \o rest

\* (?P<Y>\d\d\d\d)
MatchYear(f) == Len(f) = 4 /\ AllDigits(f)

\* (?P<m>1[0-2]|0[1-9]|[1-9])
MatchMonth(f) == Len(f) \in {1, 2} /\ AllDigits(f) /\ IntOf(f) \in 1..12

\* (?P<d>3[0-1]|[1-2]\d|0[1-9]|[1-9]| [1-9])
MatchDay(f) ==
    \/ Len(f) \in {1, 2} /\ AllDigits(f) /\ IntOf(f) \in 1..31
    \/ Len(f) = 2 /\ f[1] = " " /\ IsDigit(f[2]) /\ f[2] # "0"

DayOf(f) == IF f[1] = " " THEN DigitVal(f[2]) ELSE IntOf(f)

\* (?P<H>2[0-3]|[0-1]\d|\d)
MatchHour(f) == Len(f) \in {1, 2} /\ AllDigits(f) /\ IntOf(f) \in 0..23

\* (?P<M>[0-5]\d|\d)
MatchMinute(f) == Len(f) \in {1, 2} /\ AllDigits(f) /\ IntOf(f) \in 0..59

\* (?P<S>6[0-1]|[0-5]\d|\d)
MatchSecond(f) == Len(f) \in {1, 2} /\ AllDigits(f) /\ IntOf(f) \in 0..61

NoDate == [ok |-> FALSE]

\* [ok |-> TRUE, dt |-> datetime], or [ok |-> FALSE] for a ValueError
strptime(s) ==
    LET f == SplitFields(s, <<"-", "-", "T", ":", ":", "Z">>, 1)
    IN  IF f = <<>> THEN NoDate
        ELSE IF ~(/\ MatchYear(f[1]) /\ MatchMonth(f[2]) /\ MatchDay(f[3])
                  /\ MatchHour(f[4]) /\ MatchMinute(f[5]) /\ MatchSecond(f[6]))
        THEN NoDate
        ELSE LET y == IntOf(f[1])
                 m == IntOf(f[2])
                 d == DayOf(f[3])
             IN  IF y < 1 \/ d > DaysInMonth(y, m) \/ IntOf(f[6]) > 59
                 THEN NoDate
                 ELSE [ok |-> TRUE,
                       dt |-> MkDatetime(y, m, d, IntOf(f[4]), IntOf(f[5]),
                                         IntOf(f[6]), 0)]

(***************************************************************************)
(* Sample inputs.  A raw event is a JSON object: a function from keys to   *)
(* values; an absent key is absent from its DOMAIN.                        *)
(***************************************************************************)
Has(d, k) == k \in DOMAIN d

\* the instants datetime.now() returns in the modelled runs
Nows == {MkDatetime(2024, 10, 1, 12, 0, 0, 0),
         MkDatetime(2024, 10, 1, 12, 0, 0, 500000)}

TsRecent   == <<"2", "0", "2", "4", "-", "1", "0", "-", "0", "1", "T", "1", "1", ":", "0", "0", ":", "0", "0", "Z">>
TsCutoff   == <<"2", "0", "2", "4", "-", "0", "9", "-", "3", "0", "T", "1", "2", ":", "0", "0", ":", "0", "0", "Z">>
TsBefore   == <<"2", "0", "2", "4", "-", "0", "9", "-", "3", "0", "T", "1", "1", ":", "5", "9", ":", "5", "9", "Z">>
TsOld      == <<"2", "0", "2", "4", "-", "0", "9", "-", "2", "8", "T", "0", "8", ":", "3", "0", ":", "0", "0", "Z">>
TsUnpadded == <<"2", "0", "2", "4", "-", "9", "-", "3", "0", "T", "1", "3", ":", "0", "0", ":", "0", "0", "Z">>
TsGarbage  == <<"o", "n", "t", "e", "m">>

Stamps == {TsRecent, TsCutoff, TsBefore, TsOld, TsUnpadded, TsGarbage}

RefsHeads   == <<"r", "e", "f", "s", "/", "h", "e", "a", "d", "s", "/">>
RefMain     == <<"r", "e", "f", "s", "/", "h", "e", "a", "d", "s", "/", "m", "a", "i", "n">>
RefNested   == <<"r", "e", "f", "s", "/", "h", "e", "a", "d", "s", "/", "x", "/", "r", "e", "f", "s", "/", "h", "e", "a", "d", "s", "/", "y">>
RefTag      == <<"r", "e", "f", "s", "/", "t", "a", "g", "s", "/", "v", "1">>

Commit1 == [sha |-> "a1", message |-> "fix parser"]
Commit2 == [sha |-> "b2", message |-> "add tests"]
CommitNoMessage == [sha |-> "c3"]

PushPayloads ==
    { [ref |-> RefMain, commits |-> <<Commit1, Commit2>>],
      [ref |-> RefMain, commits |-> <<>>],
      [ref |-> RefNested, commits |-> <<Commit1>>],
      [ref |-> RefTag, commits |-> <<Commit2>>],
      [ref |-> RefMain],
      [commits |-> <<Commit1>>],
      [ref |-> RefMain, commits |-> <<CommitNoMessage>>] }

CreatePayloads ==
    { [ref_type |-> "branch", ref |-> RefMain],
      [ref_type |-> "repository"],
      [description |-> "d"] }

DeletePayloads ==
    { [ref_type |-> "tag", ref |-> RefTag],
      [ref_type |-> "tag"] }

IssuesPayloads ==
    { [action |-> "opened"],
      [description |-> "d"] }

PullRequestPayloads ==
    { [action |-> "closed", pull_request |-> [title |-> "Bump version"]],
      [action |-> "closed", pull_request |-> [number |-> "7"]],
      [action |-> "closed"] }

WatchPayloads ==
    { [action |-> "started"] }

KnownTypes == {"PushEvent", "CreateEvent", "DeleteEvent", "IssuesEvent",
               "PullRequestEvent"}

PayloadsOf(type) ==
    CASE type = "PushEvent" -> PushPayloads
      [] type = "CreateEvent" -> CreatePayloads
      [] type = "DeleteEvent" -> DeletePayloads
      [] type = "IssuesEvent" -> IssuesPayloads
      [] type = "PullRequestEvent" -> PullRequestPayloads
      [] OTHER -> WatchPayloads

RawEvent(type, payload) ==
    [type |-> type, repo |-> [name |-> "octo/app"], payload |-> payload]

\* events that differ in their timestamp (present, absent, unparseable)
FilterSamples ==
    { RawEvent("WatchEvent", [action |-> "started"]) @@ ("created_at" :> ts)
        : ts \in Stamps }
    \cup { RawEvent("WatchEvent", [action |-> "started"]) }

\* recent events that differ in their category and payload
FormatSamples ==
    UNION { { RawEvent(type, pl) @@ ("created_at" :> TsRecent)
                : pl \in PayloadsOf(type) }
            : type \in KnownTypes \cup {"WatchEvent"} }

\* events carrying the visibility flag, and an old event with a payload that
\* lacks the commit list
ExtraSamples ==
    { RawEvent("PushEvent", [ref |-> RefMain, commits |-> <<Commit1>>])
        @@ ("created_at" :> TsCutoff) @@ ("public" :> FALSE),
      RawEvent("IssuesEvent", [action |-> "closed"])
        @@ ("created_at" :> TsUnpadded) @@ ("public" :> TRUE),
      RawEvent("PushEvent", [ref |-> RefMain]) @@ ("created_at" :> TsOld) }

SampleEvents == FilterSamples \cup FormatSamples \cup ExtraSamples

RECURSIVE SeqsUpTo(_, _)
SeqsUpTo(S, n) ==
    IF n = 0 THEN {<<>>}
    ELSE LET shorter == SeqsUpTo(S, n - 1)
         IN  shorter \cup { Append(s, x) : s \in { q \in shorter : Len(q) = n - 1 },
                                           x \in S }

EventLists == SeqsUpTo(SampleEvents, MaxEvents)

\* what the activity endpoint can answer to the one GET
GitHubStatuses == {202, 304, 401, 500}

GitHubResponses ==
    { [kind |-> "response", status |-> OK, valid |-> TRUE, json |-> l]
        : l \in EventLists }
    \cup { [kind |-> "response", status |-> OK, valid |-> FALSE, json |-> <<>>] }
    \cup { [kind |-> "response", status |-> s, valid |-> TRUE, json |-> <<>>]
            : s \in GitHubStatuses }
    \cup { [kind |-> "ConnectionError", status |-> 0, valid |-> FALSE,
            json |-> <<>>] }

(***************************************************************************)
(* Results of a call: a returned value or a raised exception.              *)
(***************************************************************************)
Return(v) == [ok |-> TRUE, value |-> v]

Raise(type, msg) == [ok |-> FALSE, exc |-> [type |-> type, msg |-> msg]]

KeyError(k) == Raise("KeyError", <<"'", k, "'">>)

(***************************************************************************)
(* get_github_events                                                       *)
(***************************************************************************)
\* raise_for_status that knows client errors only
raise_for_status_ClientOnly(status) ==
    IF 400 <= status /\ status < 500
    THEN Raise("HTTPError", Str(status) \o <<" Client Error">>)
    ELSE Return(TRUE)

\* requests.Response.raise_for_status: HTTPError for 4xx and 5xx
raise_for_status(status) ==
    IF 400 <= status /\ status < 500
    THEN Raise("HTTPError", Str(status) \o <<" Client Error">>)
    ELSE IF 500 <= status /\ status < 600
    THEN Raise("HTTPError", Str(status) \o <<" Server Error">>)
    ELSE Return(TRUE)

\* yesterday = datetime.now() - timedelta(hours=24)
Yesterday(t) == MinusHours(t, LookbackHours)

\* event_date > yesterday
IsRecent_Strict(event_date, yesterday) ==
    DtGeq(event_date, yesterday) /\ event_date # yesterday

\* event_date >= yesterday
IsRecent(event_date, yesterday) == DtGeq(event_date, yesterday)

\* the body of the loop: does the event reach recent_events.append ?
Appended(event, yesterday) ==
    /\ Has(event, "created_at")                         \* else KeyError, continue
    /\ strptime(event["created_at"]).ok                 \* else ValueError, continue
    /\ IsRecent(strptime(event["created_at"]).dt, yesterday)

\* x["created_at"] sorts before y["created_at"] under reverse=True
SortsBefore(x, y) == StrLess(y["created_at"], x["created_at"])

\* insert e into the descending list s behind every element that does not
\* sort after it (the sort is stable)
RECURSIVE Insert(_, _)
Insert(s, e) ==
    IF s = <<>> THEN <<e>>
    ELSE IF SortsBefore(e, Head(s)) THEN <<e>> \o s
    ELSE <<Head(s)>> \o Insert(Tail(s), e)

\* recent_events.sort(key=lambda x: x["created_at"], reverse=True)
RECURSIVE SortEvents(_)
SortEvents(s) ==
    IF s = <<>> THEN <<>>
    ELSE Insert(SortEvents(SubSeq(s, 1, Len(s) - 1)), s[Len(s)])

get_github_events(resp, t) ==
    IF resp.kind = "ConnectionError"
    THEN Raise("ConnectionError", <<"connection failed">>)
    ELSE IF ~raise_for_status(resp.status).ok
    THEN raise_for_status(resp.status)
    ELSE IF resp.status # OK
    THEN Return(<<>>)
    ELSE IF ~resp.valid
    THEN Raise("JSONDecodeError", <<"Expecting value">>)
    ELSE Return(SortEvents(SelectSeq(resp.json,
                                     LAMBDA e : Appended(e, Yesterday(t)))))

(***************************************************************************)
(* format_events                                                           *)
(***************************************************************************)
\* event.get("public", True) == False
IsPrivate(event) == (IF Has(event, "public") THEN event["public"] ELSE TRUE) = FALSE

CommonInfo(event) ==
    [type |-> event["type"], repo |-> event["repo"]["name"],
     created_at |-> event["created_at"], is_private |-> IsPrivate(event)]

\* event["payload"]["ref"].replace("refs/heads/", "")
Branch(ref) == Replace(ref, RefsHeads, <<>>)

\* [commit["message"] for commit in commits]
CommitMessages(commits) == [i \in 1..Len(commits) |-> commits[i]["message"]]

\* PushInfo without the guard on the commit list
PushInfo_Unguarded(event) ==
    LET pl == event["payload"]
    IN  IF ~Has(pl, "commits") THEN KeyError("commits")
        ELSE IF ~Has(pl, "ref") THEN KeyError("ref")
        ELSE IF \E i \in 1..Len(pl["commits"]) : ~Has(pl["commits"][i], "message")
        THEN KeyError("message")
        ELSE Return(CommonInfo(event) @@ ("commits" :> Len(pl["commits"]))
                        @@ ("branch" :> Branch(pl["ref"]))
                        @@ ("commit_messages" :> CommitMessages(pl["commits"])))

PushInfo(event) ==
    LET pl == event["payload"]
    IN  IF ~Has(pl, "commits") THEN KeyError("commits")
        ELSE IF ~Has(pl, "ref") THEN KeyError("ref")
        ELSE LET info == CommonInfo(event) @@ ("commits" :> Len(pl["commits"]))
                            @@ ("branch" :> Branch(pl["ref"]))
             IN  IF pl["commits"] = <<>> THEN Return(info)
                 ELSE IF \E i \in 1..Len(pl["commits"]) :
                            ~Has(pl["commits"][i], "message")
                 THEN KeyError("message")
                 ELSE Return(info @@ ("commit_messages" :>
                                        CommitMessages(pl["commits"])))

CreateInfo(event) ==
    LET pl == event["payload"]
    IN  IF ~Has(pl, "ref_type") THEN KeyError("ref_type")
        ELSE IF Has(pl, "ref")
        THEN Return(CommonInfo(event) @@ ("ref_type" :> pl["ref_type"])
                        @@ ("ref" :> pl["ref"]))
        ELSE Return(CommonInfo(event) @@ ("ref_type" :> pl["ref_type"]))

IssuesInfo(event) ==
    LET pl == event["payload"]
    IN  IF ~Has(pl, "action") THEN KeyError("action")
        ELSE Return(CommonInfo(event) @@ ("action" :> pl["action"]))

PullRequestInfo(event) ==
    LET pl == event["payload"]
    IN  IF ~Has(pl, "action") THEN KeyError("action")
        ELSE IF ~Has(pl, "pull_request") THEN KeyError("pull_request")
        ELSE IF ~Has(pl["pull_request"], "title") THEN KeyError("title")
        ELSE Return(CommonInfo(event) @@ ("action" :> pl["action"])
                        @@ ("pr_title" :> pl["pull_request"]["title"]))

DeleteInfo(event) ==
    LET pl == event["payload"]
    IN  IF ~Has(pl, "ref_type") THEN KeyError("ref_type")
        ELSE IF ~Has(pl, "ref") THEN KeyError("ref")
        ELSE Return(CommonInfo(event) @@ ("ref_type" :> pl["ref_type"])
                        @@ ("ref" :> pl["ref"]))

\* one iteration of the loop: the event_info appended, or the KeyError raised
EventInfo(event) ==
    CASE event["type"] = "PushEvent" -> PushInfo(event)
      [] event["type"] = "CreateEvent" -> CreateInfo(event)
      [] event["type"] = "IssuesEvent" -> IssuesInfo(event)
      [] event["type"] = "PullRequestEvent" -> PullRequestInfo(event)
      [] event["type"] = "DeleteEvent" -> DeleteInfo(event)
      [] OTHER -> Return(CommonInfo(event))

RECURSIVE format_events(_)
format_events(evs) ==
    IF evs = <<>> THEN Return(<<>>)
    ELSE LET first == EventInfo(Head(evs))
         IN  IF ~first.ok THEN first
             ELSE LET rest == format_events(Tail(evs))
                  IN  IF ~rest.ok THEN rest
                      ELSE Return(<<first.value>> \o rest.value)

(***************************************************************************)
(* generate_daily_message                                                  *)
(***************************************************************************)
Placeholder == <<"Hoje foi um dia de planejamento e reflexão no código.">>

FallbackPrefix == <<"Trabalhando em projetos interessantes hoje! ">>
FallbackSuffix == <<" atividades no GitHub">>

IsSpace(c) == c \in {" ", "\n", "\t"}

\* str.strip()
RECURSIVE Strip(_)
Strip(s) ==
    IF s = <<>> THEN s
    ELSE IF IsSpace(Head(s)) THEN Strip(Tail(s))
    ELSE IF IsSpace(s[Len(s)]) THEN Strip(SubSeq(s, 1, Len(s) - 1))
    ELSE s

\* what the generation service can do with the one call
GenerationFailures == {"timeout", "auth", "rate_limit", "malformed"}

GenerationOutcomes ==
    { [kind |-> "text", content |-> <<"\n", "Hoje", " ", "houve", " ", "push", " ">>] }
    \cup { [kind |-> k, content |-> <<>>] : k \in GenerationFailures }

\* generate_daily_message without the early return on an empty list
generate_daily_message_AlwaysCalls(evs, answer) ==
    IF answer.kind = "text"
    THEN [ok |-> TRUE, value |-> Strip(answer.content), calls |-> 1]
    ELSE [ok |-> TRUE,
          value |-> FallbackPrefix \o Str(Len(evs)) \o FallbackSuffix,
          calls |-> 1]

\* generate_daily_message whose except clause misses the malformed response
generate_daily_message_Propagates(evs, answer) ==
    IF evs = <<>>
    THEN [ok |-> TRUE, value |-> Placeholder, calls |-> 0]
    ELSE IF answer.kind = "text"
    THEN [ok |-> TRUE, value |-> Strip(answer.content), calls |-> 1]
    ELSE IF answer.kind = "malformed"
    THEN [ok |-> FALSE, calls |-> 1,
          exc |-> [type |-> "AttributeError", msg |-> <<"'NoneType' object">>]]
    ELSE [ok |-> TRUE,
          value |-> FallbackPrefix \o Str(Len(evs)) \o FallbackSuffix,
          calls |-> 1]

\* the message returned (no path of the method raises) and the number of
\* calls made to the service; answer is the service's reaction to the call,
\* looked at only when a call is made
generate_daily_message(evs, answer) ==
    IF evs = <<>>
    THEN [ok |-> TRUE, value |-> Placeholder, calls |-> 0]
    ELSE IF answer.kind = "text"
    THEN [ok |-> TRUE, value |-> Strip(answer.content), calls |-> 1]
    ELSE [ok |-> TRUE,
          value |-> FallbackPrefix \o Str(Len(evs)) \o FallbackSuffix,
          calls |-> 1]

(***************************************************************************)
(* send_to_discord                                                         *)
(***************************************************************************)
DiscordErrorPrefix == <<"Erro ao enviar para Discord: ">>

\* what the webhook can answer to one POST (0: no response, transport error)
WebhookStatuses == {NO_CONTENT, OK, 429}

WebhookResponses ==
    { [kind |-> "response", status |-> s] : s \in WebhookStatuses }
    \cup { [kind |-> "ConnectionError", status |-> 0] }

\* send_to_discord that takes every status below 300 for a success
send_to_discord_AnySuccess(resp) ==
    IF resp.kind = "ConnectionError"
    THEN Raise("ConnectionError", <<"connection failed">>)
    ELSE IF resp.status >= 300
    THEN Raise("Exception", DiscordErrorPrefix \o Str(resp.status))
    ELSE Return(TRUE)

send_to_discord(resp) ==
    IF resp.kind = "ConnectionError"
    THEN Raise("ConnectionError", <<"connection failed">>)
    ELSE IF resp.status # NO_CONTENT
    THEN Raise("Exception", DiscordErrorPrefix \o Str(resp.status))
    ELSE Return(TRUE)

(***************************************************************************)
(* run: the state of one execution.                                        *)
(***************************************************************************)
VARIABLES
    now,               \* the reading of datetime.now() in get_github_events
    pc,                \* the call of run that executes next
    response,          \* the answer of the activity endpoint
    getCalls,          \* requests.get calls made
    events,            \* run's local events
    formatted_events,  \* run's local formatted_events
    daily_message,     \* run's local daily_message
    generation,        \* how the generation service answered ("none": not called)
    openaiCalls,       \* calls made to the generation service
    posts,             \* the POSTs made to the webhook, in order
    error,             \* the exception caught by run's except clause
    failed,            \* the call of run's try block that raised
    log,               \* the error lines printed by run
    outcome            \* "running", "returned" or "raised"

vars == <<now, pc, response, getCalls, events, formatted_events, daily_message,
          generation, openaiCalls, posts, error, failed, log, outcome>>

NoResponse == [kind |-> "none", status |-> 0, valid |-> FALSE, json |-> <<>>]
NoError == [type |-> "none", msg |-> <<>>]

ErrorReportPrefix == <<"Erro no GitHub Daily Reporter: ">>
ProcessErrorPrefix == <<"Erro no processo: ">>
SendErrorLine == <<"Erro ao executar o envio da mensagem ao Discord">>

Init ==
    /\ now \in Nows
    /\ pc = "get_github_events"
    /\ response = NoResponse
    /\ getCalls = 0
    /\ events = <<>>
    /\ formatted_events = <<>>
    /\ daily_message = <<>>
    /\ generation = "none"
    /\ openaiCalls = 0
    /\ posts = <<>>
    /\ error = NoError
    /\ failed = "none"
    /\ log = <<>>
    /\ outcome = "running"

\* the except clause of run is entered with the exception e raised by step
Caught(step, e) ==
    /\ pc' = "except"
    /\ error' = e
    /\ failed' = step
    /\ log' = Append(log, ProcessErrorPrefix \o e.msg)

\* events = self.get_github_events()
GetGithubEvents ==
    /\ pc = "get_github_events"
    /\ \E resp \in GitHubResponses :
        /\ response' = resp
        /\ getCalls' = getCalls + 1
        /\ LET r == get_github_events(resp, now)
           IN  IF r.ok
               THEN /\ events' = r.value
                    /\ pc' = "format_events"
                    /\ UNCHANGED <<error, failed, log>>
               ELSE /\ Caught("get_github_events", r.exc)
                    /\ UNCHANGED events
    /\ UNCHANGED <<now, formatted_events, daily_message, generation,
                   openaiCalls, posts, outcome>>

\* formatted_events = self.format_events(events)
FormatEvents ==
    /\ pc = "format_events"
    /\ LET r == format_events(events)
       IN  IF r.ok
           THEN /\ formatted_events' = r.value
                /\ pc' = "generate_daily_message"
                /\ UNCHANGED <<error, failed, log>>
           ELSE /\ Caught("format_events", r.exc)
                /\ UNCHANGED formatted_events
    /\ UNCHANGED <<now, response, getCalls, events, daily_message, generation,
                   openaiCalls, posts, outcome>>

\* daily_message = self.generate_daily_message(formatted_events)
GenerateDailyMessage ==
    /\ pc = "generate_daily_message"
    /\ \E answer \in GenerationOutcomes :
        LET g == generate_daily_message(formatted_events, answer)
        IN  /\ openaiCalls' = openaiCalls + g.calls
            /\ generation' = IF g.calls = 0 THEN "none" ELSE answer.kind
            /\ IF g.ok
               THEN /\ daily_message' = g.value
                    /\ pc' = "send_to_discord"
                    /\ UNCHANGED <<error, failed, log>>
               ELSE /\ Caught("generate_daily_message", g.exc)
                    /\ UNCHANGED daily_message
    /\ UNCHANGED <<now, response, getCalls, events, formatted_events, posts,
                   outcome>>

Post(message, resp, fallback) ==
    [description |-> message, response |-> resp, fallback |-> fallback,
     result |-> send_to_discord(resp)]

\* self.send_to_discord(daily_message)
SendToDiscord ==
    /\ pc = "send_to_discord"
    /\ \E resp \in WebhookResponses :
        /\ posts' = Append(posts, Post(daily_message, resp, FALSE))
        /\ IF send_to_discord(resp).ok
           THEN /\ pc' = "done"
                /\ outcome' = "returned"
                /\ UNCHANGED <<error, failed, log>>
           ELSE /\ Caught("send_to_discord", send_to_discord(resp).exc)
                /\ UNCHANGED outcome
    /\ UNCHANGED <<now, response, getCalls, events, formatted_events,
                   daily_message, generation, openaiCalls>>

\* run without the inner try: a failed report escapes
AfterReport_Escapes(result) ==
    IF result.ok
    THEN [outcome |-> "returned", printed |-> <<>>]
    ELSE [outcome |-> "raised", printed |-> <<>>]

\* how run ends after the send of the error report returned or raised
AfterReport(result) ==
    IF result.ok
    THEN [outcome |-> "returned", printed |-> <<>>]
    ELSE [outcome |-> "returned", printed |-> <<SendErrorLine>>]

\* the except clause: self.send_to_discord(f"Erro no GitHub Daily Reporter: ...")
ReportError ==
    /\ pc = "except"
    /\ \E resp \in WebhookResponses :
        /\ posts' = Append(posts, Post(ErrorReportPrefix \o error.msg, resp, TRUE))
        /\ outcome' = AfterReport(send_to_discord(resp)).outcome
        /\ log' = log \o AfterReport(send_to_discord(resp)).printed
    /\ pc' = "done"
    /\ UNCHANGED <<now, response, getCalls, events, formatted_events,
                   daily_message, generation, openaiCalls, error, failed>>

Next ==
    \/ GetGithubEvents
    \/ FormatEvents
    \/ GenerateDailyMessage
    \/ SendToDiscord
    \/ ReportError

Spec == Init /\ [][Next]_vars

(***************************************************************************)
(* Vocabulary of the properties.                                           *)
(***************************************************************************)
Range(s) == { s[i] : i \in 1..Len(s) }

Count(s, x) == Cardinality({ i \in 1..Len(s) : s[i] = x })

\* the cutoff instant: now minus the lookback window
Cutoff == MinusHours(now, LookbackHours)

\* the activity endpoint answered 200 with a JSON list, so the filter ran
Filtered ==
    /\ pc # "get_github_events"
    /\ response.kind = "response" /\ response.status = OK /\ response.valid

\* format_events returned
Formatted == Filtered /\ pc # "format_events" /\ failed # "format_events"

\* generate_daily_message was called
Composed ==
    /\ pc \in {"send_to_discord", "except", "done"}
    /\ failed \notin {"get_github_events", "format_events"}

Parseable(e) == Has(e, "created_at") /\ strptime(e["created_at"]).ok

DateOf(e) == strptime(e["created_at"]).dt

FallbackPosts == { i \in 1..Len(posts) : posts[i].fallback }

(***************************************************************************)
(* C1: an error raised by the fetch, filter or format steps is caught by   *)
(* run, which attempts exactly one notification of the failure, carrying   *)
(* the error message, to the webhook; when that notification fails too     *)
(* the error is only logged; run never raises to its caller.               *)
(***************************************************************************)
C1_RunCatchesAndReportsOnce ==
    /\ outcome # "raised"
    /\ pc = "done" => outcome = "returned"
    /\ Cardinality(FallbackPosts) <= 1
    /\ failed \in {"get_github_events", "format_events"} =>
        /\ pc \in {"except", "done"}
        /\ log # <<>> /\ log[1] = ProcessErrorPrefix \o error.msg
        /\ pc = "except" => posts = <<>>
        /\ pc = "done" =>
            /\ Len(posts) = 1
            /\ posts[1].fallback
            /\ posts[1].description = ErrorReportPrefix \o error.msg
            /\ ~posts[1].result.ok => log[Len(log)] = SendErrorLine
            /\ posts[1].result.ok => Len(log) = 1
    /\ (pc \in {"except", "done"} /\ response.kind = "response"
            /\ response.status = 401) =>
        /\ failed = "get_github_events"
        /\ StartsWith(error.msg, Str(401))

\* the endpoint answered 401, the report of the failure was attempted and
\* failed as well, and run has returned
C1_Witness ==
    /\ pc = "done"
    /\ response.status = 401
    /\ failed = "get_github_events"
    /\ Len(posts) = 1 /\ posts[1].fallback /\ ~posts[1].result.ok
    /\ outcome = "returned"

(***************************************************************************)
(* C2: given an empty list, generate_daily_message returns the fixed       *)
(* placeholder and makes no call to the generation service; when every     *)
(* fetched event is older than the cutoff, run posts that placeholder.     *)
(***************************************************************************)
AllOlderThanCutoff ==
    /\ Filtered
    /\ \A e \in Range(response.json) : Parseable(e) /\ ~DtGeq(DateOf(e), Cutoff)

C2_EmptyListGivesPlaceholder ==
    /\ (Composed /\ formatted_events = <<>>) =>
        /\ daily_message = Placeholder
        /\ openaiCalls = 0
        /\ generation = "none"
    /\ \/ posts = <<>>
       \/ ~posts[1].fallback /\ posts[1].description = Placeholder
       \/ ~AllOlderThanCutoff

\* two events, both older than the cutoff, were fetched and the placeholder
\* was posted
C2_Witness ==
    /\ pc = "done"
    /\ AllOlderThanCutoff /\ Len(response.json) = 2
    /\ openaiCalls = 0
    /\ posts[1].description = Placeholder /\ posts[1].result.ok

(***************************************************************************)
(* C3: for a non-empty list and every kind of failure of the generation    *)
(* service, generate_daily_message does not raise: it returns the same     *)
(* fallback string, which contains the number of events, and run goes on   *)
(* to post that string.                                                    *)
(***************************************************************************)
\* the decimal number a fallback message carries between its fixed parts
CountIn(message) ==
    IntOf(SubSeq(message, Len(FallbackPrefix) + 1,
                 Len(message) - Len(FallbackSuffix)))

C3_GenerationFailureGivesCountFallback ==
    /\ failed # "generate_daily_message"
    /\ generation \in GenerationFailures =>
        /\ formatted_events # <<>>
        /\ openaiCalls = 1
        /\ pc \in {"send_to_discord", "except", "done"}
        /\ StartsWith(daily_message, FallbackPrefix)
        /\ Len(daily_message) > Len(FallbackPrefix) + Len(FallbackSuffix)
        /\ SubSeq(daily_message, Len(daily_message) - Len(FallbackSuffix) + 1,
                  Len(daily_message)) = FallbackSuffix
        /\ AllDigits(SubSeq(daily_message, Len(FallbackPrefix) + 1,
                            Len(daily_message) - Len(FallbackSuffix)))
        /\ CountIn(daily_message) = Len(formatted_events)
        /\ pc \in {"except", "done"} =>
            /\ posts # <<>>
            /\ ~posts[1].fallback
            /\ posts[1].description = daily_message

\* the service timed out on two events and the fallback was posted
C3_Witness ==
    /\ pc = "done"
    /\ generation = "timeout"
    /\ Len(formatted_events) = 2
    /\ CountIn(daily_message) = 2
    /\ posts[1].description = daily_message /\ posts[1].result.ok

(***************************************************************************)
(* C4: the filter keeps exactly the events whose created_at is at or after *)
(* the cutoff and excludes those before it, the boundary included; an      *)
(* empty or fully filtered input gives an empty list, not an error.        *)
(***************************************************************************)
\* stated of the list as get_github_events returns it (run does not change
\* events afterwards)
C4_FilterKeepsExactlyRecent ==
    /\ (response.kind = "response" /\ response.status = OK /\ response.valid) =>
        failed # "get_github_events"
    /\ (pc = "format_events" /\ response.status = OK) =>
        /\ Range(events) \subseteq Range(response.json)
        /\ \A e \in Range(response.json) :
            Parseable(e) =>
                Count(events, e) =
                    IF DtGeq(DateOf(e), Cutoff) THEN Count(response.json, e)
                    ELSE 0
        /\ (\A e \in Range(response.json) :
                Parseable(e) => ~DtGeq(DateOf(e), Cutoff)) => events = <<>>

\* an event created exactly at the cutoff was kept and one created a second
\* earlier was dropped
C4_Witness ==
    /\ Filtered
    /\ \E e \in Range(events) : DateOf(e) = Cutoff
    /\ \E e \in Range(response.json) :
        /\ Parseable(e) /\ ~DtGeq(DateOf(e), Cutoff)
        /\ e \notin Range(events)

(***************************************************************************)
(* C5: the list the filter returns is in descending order of the           *)
(* created_at instant, for every created_at string the filter parses.      *)
(***************************************************************************)
C5_FilterOutputDescendingByInstant ==
    Filtered =>
        \A i, j \in 1..Len(events) :
            i < j => DtGeq(DateOf(events[i]), DateOf(events[j]))

(***************************************************************************)
(* C6: format_events never fails: for an event of a known category whose   *)
(* payload lacks sub-fields it omits the field, and it does not fail for   *)
(* an event of an unknown category either.                                 *)
(***************************************************************************)
C6_FormatterTotal ==
    /\ failed # "format_events"
    /\ (Filtered /\ pc # "format_events") =>
        Len(formatted_events) = Len(events)

(***************************************************************************)
(* C7: in a normalized event a field outside the common set (type, repo,   *)
(* created_at) is present if and only if the raw event's type matches the  *)
(* field's category; an event of an unknown category has exactly the       *)
(* common fields.                                                          *)
(***************************************************************************)
CategoryFields == {"commits", "branch", "commit_messages", "ref_type", "ref",
                   "action", "pr_title"}

CategoriesOf(field) ==
    CASE field \in {"commits", "branch", "commit_messages"} -> {"PushEvent"}
      [] field \in {"ref_type", "ref"} -> {"CreateEvent", "DeleteEvent"}
      [] field = "action" -> {"IssuesEvent", "PullRequestEvent"}
      [] field = "pr_title" -> {"PullRequestEvent"}

C7_FieldsIffCategory ==
    Formatted =>
        \A i \in 1..Len(formatted_events) :
            DOMAIN formatted_events[i] \ {"type", "repo", "created_at"} =
                { f \in CategoryFields : events[i]["type"] \in CategoriesOf(f) }

(***************************************************************************)
(* C7 as amended: the common set is type, repo, created_at and is_private; *)
(* any other field is present only if the raw event's type matches the     *)
(* field's category; commits, branch, ref_type, action and pr_title are    *)
(* present whenever it matches, as is ref for a delete event, while        *)
(* commit_messages is present exactly for a push with a non-empty commit   *)
(* list and ref of a create event exactly when the payload has one; an     *)
(* event of an unknown category has exactly the four common fields.        *)
(***************************************************************************)
CommonFields == {"type", "repo", "created_at", "is_private"}

C7_FieldsOnlyIfCategory ==
    Formatted =>
        /\ Len(formatted_events) = Len(events)
        /\ \A i \in 1..Len(formatted_events) :
            LET info == formatted_events[i]
                type == events[i]["type"]
                pl   == events[i]["payload"]
                extra == DOMAIN info \ CommonFields
            IN  /\ CommonFields \subseteq DOMAIN info
                /\ extra \subseteq CategoryFields
                /\ \A f \in extra : type \in CategoriesOf(f)
                /\ \A f \in {"commits", "branch", "ref_type", "action", "pr_title"} :
                    type \in CategoriesOf(f) => f \in extra
                /\ type = "DeleteEvent" => "ref" \in extra
                /\ "commit_messages" \in extra <=>
                        (type = "PushEvent" /\ pl["commits"] # <<>>)
                /\ type = "CreateEvent" => ("ref" \in extra <=> Has(pl, "ref"))
                /\ type \notin KnownTypes => DOMAIN info = CommonFields

\* a push with an empty commit list and an event of an unknown category
\* were formatted together
C7_Witness ==
    /\ Formatted
    /\ Len(formatted_events) = 2
    /\ events[1]["type"] = "PushEvent"
    /\ "commit_messages" \notin DOMAIN formatted_events[1]
    /\ "branch" \in DOMAIN formatted_events[1]
    /\ events[2]["type"] = "WatchEvent"
    /\ DOMAIN formatted_events[2] = CommonFields

(***************************************************************************)
(* C8: send_to_discord returns success only when the webhook answers with  *)
(* the "no content" status; for every other status it raises an error      *)
(* that carries the status code observed.                                  *)
(***************************************************************************)
C8_NotifierSucceedsOnlyOnNoContent ==
    /\ \A i \in 1..Len(posts) :
        LET p == posts[i]
        IN  /\ p.result.ok => (p.response.kind = "response"
                                /\ p.response.status = 204)
            /\ (p.response.kind = "response" /\ p.response.status # 204) =>
                /\ ~p.result.ok
                /\ StartsWith(p.result.exc.msg, DiscordErrorPrefix)
                /\ Len(p.result.exc.msg) > Len(DiscordErrorPrefix)
                /\ IntOf(SubSeq(p.result.exc.msg, Len(DiscordErrorPrefix) + 1,
                                Len(p.result.exc.msg))) = p.response.status
            /\ (p.response.kind = "response" /\ p.response.status = 204) =>
                (p.result.ok /\ p.result.value = TRUE)
    /\ (pc = "done" /\ failed = "none") =>
        (Len(posts) = 1 /\ posts[1].response.status = 204)
    /\ (failed = "send_to_discord" /\ posts[1].response.kind = "response") =>
        error.msg = DiscordErrorPrefix \o Str(posts[1].response.status)

\* the webhook answered 200 to the daily message, which made the send fail
\* with that code, and 204 to the report of the failure
C8_Witness ==
    /\ Len(posts) = 2
    /\ posts[1].response.status = 200 /\ ~posts[1].result.ok
    /\ error.msg = DiscordErrorPrefix \o <<"2", "0", "0">>
    /\ posts[2].response.status = 204 /\ posts[2].result.ok

(***************************************************************************)
(* C9: the fetcher makes exactly one request per run, and for every        *)
(* non-success response status it fails with an error carrying the status  *)
(* instead of returning a list of events.                                  *)
(***************************************************************************)
OneRequestPerRun ==
    /\ getCalls <= 1
    /\ pc # "get_github_events" => getCalls = 1

C9_FetcherFailsOnEveryNonSuccess ==
    /\ OneRequestPerRun
    /\ (response.kind = "response" /\ response.status \notin 200..299) =>
        /\ failed = "get_github_events"
        /\ error.type = "HTTPError"
        /\ StartsWith(error.msg, Str(response.status))

(***************************************************************************)
(* C9 as amended: the fetcher makes exactly one request per run; for every *)
(* response status from 400 to 599 it fails with an error carrying the     *)
(* status instead of returning a list of events; for any other status      *)
(* that is not 200 it returns an empty list without failing.               *)
(***************************************************************************)
C9_FetcherFailsOnErrorStatus ==
    /\ OneRequestPerRun
    /\ (response.kind = "response" /\ response.status \in 400..599) =>
        /\ failed = "get_github_events"
        /\ error.type = "HTTPError"
        /\ StartsWith(error.msg, Str(response.status))
        /\ events = <<>> /\ formatted_events = <<>>
        /\ pc \in {"except", "done"}
    /\ (response.kind = "response" /\ response.status \notin 400..599
            /\ response.status # 200) =>
        /\ failed # "get_github_events"
        /\ events = <<>>

\* the endpoint answered 500 to the single request and the run went to its
\* except clause with an error that starts with 500
C9_Witness ==
    /\ getCalls = 1
    /\ response.kind = "response" /\ response.status = 500
    /\ failed = "get_github_events"
    /\ StartsWith(error.msg, <<"5", "0", "0">>)

(***************************************************************************)
(* C10: for a push event, commits is the length of the commit list, branch *)
(* is the ref with only a leading "refs/heads/" removed, and               *)
(* commit_messages is the list of the commits' messages in order, present  *)
(* if and only if the commit list is not empty.                            *)
(***************************************************************************)
StripLeading(ref, prefix) ==
    IF StartsWith(ref, prefix) THEN SubSeq(ref, Len(prefix) + 1, Len(ref))
    ELSE ref

C10_PushProjection ==
    Formatted =>
        \A i \in 1..Len(formatted_events) :
            events[i]["type"] = "PushEvent" =>
                LET info == formatted_events[i]
                    pl   == events[i]["payload"]
                IN  /\ info["commits"] = Len(pl["commits"])
                    /\ info["branch"] = StripLeading(pl["ref"], RefsHeads)
                    /\ "commit_messages" \in DOMAIN info <=> pl["commits"] # <<>>
                    /\ "commit_messages" \in DOMAIN info =>
                        /\ Len(info["commit_messages"]) = Len(pl["commits"])
                        /\ \A k \in 1..Len(pl["commits"]) :
                            info["commit_messages"][k] = pl["commits"][k]["message"]

=============================================================================
